---- MODULE Spec2Model ----
(***************************************************************************)
(* Resource-provider layer of the multi-environment web server demo:       *)
(*   - SQLiteBackendProvider: state table, locks table (TTL lock), audit   *)
(*     log                     (src/src/providers/WebServerProvider.ts)    *)
(*   - RealHttpServerProvider: process table, materialize, detectDrift,    *)
(*     refreshState, the exit/signal hook (same file), preDeploy and       *)
(*     cleanup (src/unnamed/part_002)                                      *)
(***************************************************************************)
EXTENDS Integers, Sequences, FiniteSets, TLC

VARIABLES
    locks,          \* table locks: set of rows [stack_name, holder, acquired_at, ttl]
    state,          \* table state: set of rows [stack_name, state_data, updated_at]
    now,            \* Date.now(), in milliseconds
    last,           \* the last backend call: its arguments and what it returned or threw
    lastSaved,      \* per stack: the argument of the most recent saveState call
    lastStored,     \* per stack: the argument of the most recent saveState call that returned
    pc,             \* per caller: its position in acquireLock / the reconciliation pass
    existingLock,   \* per caller: the local existingLock of its acquireLock call
    req,            \* per caller: the arguments of its acquireLock call, and when it inserted
    overran,        \* per stack: some caller was in its pass after its lock's ttl had elapsed
    nodes,          \* the CloudDOM nodes: id -> [constructType, props, outputs]
    processes,      \* RealHttpServerProvider.processes: id -> ChildProcess handle
    os,             \* the worker processes spawned so far: pid -> [id, port, st]
    call,           \* the provider call in progress: "idle", "materialize", "hung", or
                    \* the wait deployWebServer is in: "startupWait", "poll", "pollDelay",
                    \* "pollPending"
    queue,          \* the nodes of the materialize batch not yet deployed
    plast,          \* the last provider call on a node and its outcome
    deploy,         \* deployWebServer in progress (or the last one): its locals
    timer,          \* milliseconds since the timer of the current wait was set
    host,           \* the Node.js process that holds the providers: "running" or "exited"
    cleanupRegistered, \* per provider instance: its field cleanupRegistered
    listeners,      \* per process event: the number of listeners registered on it
    signalled,      \* the workers that teardown has sent a termination signal
    tlast,          \* the last teardown and what it did
    audit_log,      \* table audit_log: sequence of rows [id, stack_name, entry_data, created_at]
    files           \* the index.html under sites/<name>: name -> content

backendVars == <<locks, state, now, last, lastSaved, lastStored, audit_log>>
callerVars == <<pc, existingLock, req, overran>>
providerVars == <<nodes, processes, os, call, queue, plast>>
startupVars == <<deploy, timer>>
teardownVars == <<host, cleanupRegistered, listeners, signalled, tlast>>
hostVars == <<startupVars, teardownVars, files>>
vars == <<locks, state, now, last, lastSaved, lastStored, pc, existingLock, req, overran,
          nodes, processes, os, call, queue, plast, deploy, timer,
          host, cleanupRegistered, listeners, signalled, tlast, audit_log, files>>

----------------------------------------------------------------------------
\* Bounds of the model

Stacks == {"stack-a", "stack-b"}
Holders == {"worker-1", "worker-2"}
Callers == {"c1", "c2"}
TTLs == {-1, 0, 1, 2}
\* the ttls of the callers whose acquireLock steps interleave
RaceTTLs == {0, 1}
MaxTicks == 3

\* Program constants
MsPerSec == 1000
\* the clock advances in half seconds
TickMs == MsPerSec \div 2

Null == [nil |-> TRUE]
\* no saveState call yet (lastSaved, lastStored)
Never == <<"never", "">>

----------------------------------------------------------------------------
\* Table locks (stack_name TEXT PRIMARY KEY, holder, acquired_at, ttl)

LockRow(s, h, at, t) == [stack_name |-> s, holder |-> h, acquired_at |-> at, ttl |-> t]

LockRows(tbl, s) == {r \in tbl : r.stack_name = s}

\* SELECT holder, acquired_at, ttl FROM locks WHERE stack_name = ?
SelectLock(tbl, s) ==
    IF LockRows(tbl, s) = {} THEN Null
    ELSE LET row == CHOOSE r \in LockRows(tbl, s) : TRUE
         IN [holder |-> row.holder, acquiredAt |-> row.acquired_at, ttl |-> row.ttl]

\* DELETE FROM locks WHERE stack_name = ?
DeleteLockNothing(tbl, s) == tbl
DeleteLock(tbl, s) == {r \in tbl : r.stack_name # s}

\* INSERT INTO locks ...: the primary key rejects a second row of the stack
InsertLockNoKey(tbl, row) == [ok |-> TRUE, tbl |-> tbl \cup {row}]
InsertLock(tbl, row) ==
    IF LockRows(tbl, row.stack_name) # {}
    THEN [ok |-> FALSE, tbl |-> tbl]
    ELSE [ok |-> TRUE, tbl |-> tbl \cup {row}]

\* lockAge < ttlMs, the test of acquireLock on the row it read
LockAge(lock, tm) == tm - lock.acquiredAt
NotExpiredUnlessPositive(lock, tm) ==
    lock.ttl <= 0 \/ LockAge(lock, tm) < lock.ttl * MsPerSec
NotExpiredInclusive(lock, tm) == LockAge(lock, tm) <= lock.ttl * MsPerSec
NotExpiredNever(lock, tm) == FALSE
NotExpired(lock, tm) == LockAge(lock, tm) < lock.ttl * MsPerSec

\* the value checkLock resolves to
checkLockValueLive(tbl, s) ==
    IF SelectLock(tbl, s) # Null /\ ~NotExpired(SelectLock(tbl, s), now)
    THEN Null ELSE SelectLock(tbl, s)
checkLockValue(tbl, s) == SelectLock(tbl, s)

\* acquireLock run without interruption at time tm: the table it leaves and its outcome
acquireLockRunPurgeFirst(tbl, s, h, t, tm) ==
    LET existing == checkLockValue(tbl, s)
    IN IF existing # Null /\ NotExpired(existing, tm)
       THEN [tbl |-> DeleteLock(tbl, s), res |-> "LockConflict",
             errHolder |-> existing.holder,
             errAge |-> LockAge(existing, tm) \div MsPerSec, purged |-> FALSE]
       ELSE LET cleared == IF existing # Null THEN DeleteLock(tbl, s) ELSE tbl
                ins == InsertLock(cleared, LockRow(s, h, tm, t))
            IN [tbl |-> ins.tbl, res |-> IF ins.ok THEN "ok" ELSE "ConstraintError",
                errHolder |-> "", errAge |-> 0, purged |-> existing # Null]
acquireLockRunReentrant(tbl, s, h, t, tm) ==
    LET existing == checkLockValue(tbl, s)
    IN IF existing # Null /\ NotExpired(existing, tm) /\ existing.holder # h
       THEN [tbl |-> tbl, res |-> "LockConflict", errHolder |-> existing.holder,
             errAge |-> LockAge(existing, tm) \div MsPerSec, purged |-> FALSE]
       ELSE LET cleared == IF existing # Null THEN DeleteLock(tbl, s) ELSE tbl
                ins == InsertLock(cleared, LockRow(s, h, tm, t))
            IN [tbl |-> ins.tbl, res |-> IF ins.ok THEN "ok" ELSE "ConstraintError",
                errHolder |-> "", errAge |-> 0, purged |-> existing # Null]
acquireLockRun(tbl, s, h, t, tm) ==
    LET existing == checkLockValue(tbl, s)
    IN IF existing # Null /\ NotExpired(existing, tm)
       THEN [tbl |-> tbl, res |-> "LockConflict", errHolder |-> existing.holder,
             errAge |-> LockAge(existing, tm) \div MsPerSec, purged |-> FALSE]
       ELSE LET cleared == IF existing # Null THEN DeleteLock(tbl, s) ELSE tbl
                ins == InsertLock(cleared, LockRow(s, h, tm, t))
            IN [tbl |-> ins.tbl, res |-> IF ins.ok THEN "ok" ELSE "ConstraintError",
                errHolder |-> "", errAge |-> 0, purged |-> existing # Null]

NoCall == [op |-> "none", stack |-> "", holder |-> "", ttl |-> 0, res |-> "none",
           errHolder |-> "", errAge |-> 0, purged |-> FALSE, ret |-> Null,
           afterRelease |-> FALSE, prev |-> Null]

Tick ==
    /\ now < MaxTicks * TickMs
    /\ now' = now + TickMs

----------------------------------------------------------------------------
\* SpecLock: the lock operations of the backend, each call run to completion

acquireLock(s, h, t) ==
    LET run == acquireLockRun(locks, s, h, t, now)
    IN /\ locks' = run.tbl
       /\ last' = [NoCall EXCEPT !.op = "acquireLock", !.stack = s, !.holder = h, !.ttl = t,
                     !.res = run.res, !.errHolder = run.errHolder, !.errAge = run.errAge,
                     !.purged = run.purged, !.prev = checkLockValue(locks, s),
                     !.afterRelease = (last.op = "releaseLock" /\ last.stack = s)]
       /\ UNCHANGED <<state, now, lastSaved, lastStored, callerVars, providerVars, hostVars, audit_log>>

releaseLock(s) ==
    /\ locks' = DeleteLock(locks, s)
    /\ last' = [NoCall EXCEPT !.op = "releaseLock", !.stack = s, !.res = "ok"]
    /\ UNCHANGED <<state, now, lastSaved, lastStored, callerVars, providerVars, hostVars, audit_log>>

checkLock(s) ==
    /\ last' = [NoCall EXCEPT !.op = "checkLock", !.stack = s, !.res = "ok",
                  !.ret = checkLockValue(locks, s)]
    /\ UNCHANGED <<locks, state, now, lastSaved, lastStored, callerVars, providerVars, hostVars, audit_log>>

LockTick == Tick /\ UNCHANGED <<locks, state, last, lastSaved, lastStored, callerVars, providerVars, hostVars, audit_log>>

\* met: the callers whose latest acquireLock call on the stack overlapped this one
NoReq == [stack |-> "", ttl |-> 0, at |-> 0, met |-> {}]

InitCallers ==
    /\ pc = [c \in Callers |-> "idle"]
    /\ existingLock = [c \in Callers |-> Null]
    /\ req = [c \in Callers |-> NoReq]
    /\ overran = [s \in Stacks |-> FALSE]

InitBackend ==
    /\ locks = {}
    /\ state = {}
    /\ now = 0
    /\ last = NoCall
    /\ lastSaved = [s \in Stacks |-> Never]
    /\ lastStored = [s \in Stacks |-> Never]
    /\ audit_log = <<>>

NextLock ==
    \/ \E s \in Stacks, h \in Holders, t \in TTLs : acquireLock(s, h, t)
    \/ \E s \in Stacks : releaseLock(s)
    \/ \E s \in Stacks : checkLock(s)
    \/ LockTick

----------------------------------------------------------------------------
\* Values passed to saveState and their JSON text.  A value is a leaf
\* <<"leaf", x>> or an object <<"obj", x>> with the one key "outputs", x its value
\* ("missing": the object has no such key).

Undefined == <<"leaf", "undefined">>

StateValues ==
    {Undefined, <<"obj", "missing">>, <<"obj", "undefined">>, <<"obj", "1">>, <<"obj", "NaN">>}

\* JSON.stringify does not return a string for undefined
NoText == "<undefined>"

\* JSON.stringify(value)
stringify(v) ==
    IF v[1] = "leaf"
    THEN CASE v[2] = "undefined" -> NoText
           [] v[2] = "NaN" -> "null"
           [] OTHER -> v[2]
    ELSE CASE v[2] \in {"missing", "undefined"} -> "{}"
           [] v[2] = "NaN" -> "{\"outputs\":null}"
           [] OTHER -> "{\"outputs\":" \o v[2] \o "}"

JsonTexts == {"null", "1", "{}", "{\"outputs\":null}", "{\"outputs\":1}"}

\* JSON.parse(text): [ok, value], ok = FALSE for a SyntaxError
parse(text) ==
    CASE text = "null" -> [ok |-> TRUE, value |-> <<"leaf", "null">>]
      [] text = "1" -> [ok |-> TRUE, value |-> <<"leaf", "1">>]
      [] text = "{}" -> [ok |-> TRUE, value |-> <<"obj", "missing">>]
      [] text = "{\"outputs\":null}" -> [ok |-> TRUE, value |-> <<"obj", "null">>]
      [] text = "{\"outputs\":1}" -> [ok |-> TRUE, value |-> <<"obj", "1">>]
      [] OTHER -> [ok |-> FALSE, value |-> Undefined]

\* Table state (stack_name TEXT PRIMARY KEY, state_data TEXT NOT NULL, updated_at)

StateRows(tbl, s) == {r \in tbl : r.stack_name = s}

\* INSERT INTO state ... ON CONFLICT(stack_name) DO UPDATE SET state_data, updated_at
UpsertStateKeepFirst(tbl, s, text, at) ==
    IF StateRows(tbl, s) # {} THEN tbl
    ELSE tbl \cup {[stack_name |-> s, state_data |-> text, updated_at |-> at]}
UpsertState(tbl, s, text, at) ==
    {r \in tbl : r.stack_name # s}
        \cup {[stack_name |-> s, state_data |-> text, updated_at |-> at]}

\* the value getState resolves to; <<"throw", e>> stands for a call that throws e
getStateValueUncaught(tbl, s) ==
    IF StateRows(tbl, s) = {} THEN Undefined
    ELSE LET row == CHOOSE r \in StateRows(tbl, s) : TRUE
             parsed == parse(row.state_data)
         IN IF parsed.ok THEN parsed.value ELSE <<"throw", "SyntaxError">>
getStateValue(tbl, s) ==
    IF StateRows(tbl, s) = {} THEN Undefined
    ELSE LET row == CHOOSE r \in StateRows(tbl, s) : TRUE
             parsed == parse(row.state_data)
         IN IF parsed.ok THEN parsed.value ELSE Undefined

----------------------------------------------------------------------------
\* SpecStore: the state operations of the backend, each call run to completion

saveState(s, v) ==
    LET stateData == stringify(v)
    IN /\ IF stateData = NoText
          THEN \* nothing to bind to state_data: stmt.run throws, no row is written
               /\ state' = state
               /\ lastStored' = lastStored
               /\ last' = [NoCall EXCEPT !.op = "saveState", !.stack = s, !.res = "BindError"]
          ELSE /\ state' = UpsertState(state, s, stateData, now)
               /\ lastStored' = [lastStored EXCEPT ![s] = v]
               /\ last' = [NoCall EXCEPT !.op = "saveState", !.stack = s, !.res = "ok"]
       /\ lastSaved' = [lastSaved EXCEPT ![s] = v]
       /\ UNCHANGED <<locks, now, callerVars, providerVars, hostVars, audit_log>>

getState(s) ==
    /\ LET value == getStateValue(state, s)
       IN last' = IF value[1] = "throw"
                  THEN [NoCall EXCEPT !.op = "getState", !.stack = s, !.res = value[2]]
                  ELSE [NoCall EXCEPT !.op = "getState", !.stack = s, !.res = "ok",
                                      !.ret = value]
    /\ UNCHANGED <<locks, state, now, lastSaved, lastStored, callerVars, providerVars, hostVars, audit_log>>

StoreTick == Tick /\ UNCHANGED <<locks, state, last, lastSaved, lastStored, callerVars, providerVars, hostVars, audit_log>>

NextStore ==
    \/ \E s \in Stacks, v \in StateValues : saveState(s, v)
    \/ \E s \in Stacks : getState(s)
    \/ StoreTick

\* texts that are not JSON: an empty one and a truncated one
ForeignTexts == {"", "{\"outputs\":"}

\* another program leaves a text of its own in the state row of a stack
foreignWrite(s, text) ==
    /\ state' = UpsertState(state, s, text, now)
    /\ UNCHANGED <<locks, now, last, lastSaved, lastStored, callerVars, providerVars,
                   hostVars, audit_log>>

\* SpecStoreForeign: the state operations on a database that is also written by
\* another program
NextStoreForeign ==
    \/ \E s \in Stacks, v \in StateValues : saveState(s, v)
    \/ \E s \in Stacks : getState(s)
    \/ \E s \in Stacks, text \in ForeignTexts : foreignWrite(s, text)
    \/ StoreTick

----------------------------------------------------------------------------
\* Table audit_log (id INTEGER PRIMARY KEY AUTOINCREMENT, stack_name, entry_data,
\* created_at), kept in insertion order

MaxAuditRows == 2

AuditEntries == {Undefined, <<"obj", "missing">>, <<"obj", "1">>}

\* INSERT INTO audit_log (stack_name, entry_data, created_at): the id is one more
\* than the largest id the table has had; no row is ever deleted, so that is the
\* number of rows
InsertAuditPerStack(tbl, s, text, at) ==
    SelectSeq(tbl, LAMBDA r : r.stack_name # s)
        \o <<[id |-> Len(tbl) + 1, stack_name |-> s, entry_data |-> text, created_at |-> at]>>
InsertAudit(tbl, s, text, at) ==
    Append(tbl, [id |-> Len(tbl) + 1, stack_name |-> s, entry_data |-> text,
                 created_at |-> at])

appendAuditLog(s, v) ==
    LET entryData == stringify(v)
    IN /\ Len(audit_log) < MaxAuditRows
       /\ IF entryData = NoText
          THEN \* nothing to bind to entry_data: stmt.run throws, no row is written
               /\ audit_log' = audit_log
               /\ last' = [NoCall EXCEPT !.op = "appendAuditLog", !.stack = s,
                                         !.res = "BindError"]
          ELSE /\ audit_log' = InsertAudit(audit_log, s, entryData, now)
               /\ last' = [NoCall EXCEPT !.op = "appendAuditLog", !.stack = s,
                                         !.res = "ok"]
       /\ UNCHANGED <<locks, state, now, lastSaved, lastStored, callerVars, providerVars,
                      hostVars>>

\* SpecAudit: the audit log next to the other operations of the backend
NextAudit ==
    \/ \E s \in Stacks, v \in AuditEntries : appendAuditLog(s, v)
    \/ \E s \in {"stack-a"}, v \in {<<"obj", "1">>} : saveState(s, v)
    \/ \E s \in {"stack-a"} : getState(s)
    \/ \E s \in {"stack-a"}, h \in {"worker-1"}, t \in {1} : acquireLock(s, h, t)
    \/ \E s \in {"stack-a"} : releaseLock(s)
    \/ \E s \in {"stack-a"} : checkLock(s)
    \/ StoreTick

----------------------------------------------------------------------------
\* Callers that bracket a reconciliation pass with acquireLock / releaseLock, the
\* holder being the caller's own name.  pc[c]:
\*   "idle"          no call in progress, no lock acquired
\*   "awaitCheck"    in acquireLock, at `await this.checkLock(stackName)`
\*   "awaitRelease"  in acquireLock, at `await this.releaseLock(stackName)`
\*   "pass"          acquireLock returned; the reconciliation pass runs

InPass(c, s) == pc[c] = "pass" /\ req[c].stack = s

\* c is in its pass although the ttl of the lock it inserted has elapsed
PassExpired(c, s) == InPass(c, s) /\ now - req[c].at >= req[c].ttl * MsPerSec

NoteOverrun ==
    overran' = [s \in Stacks |->
                  overran[s] \/ \E c \in Callers :
                                  /\ pc'[c] = "pass" /\ req'[c].stack = s
                                  /\ now' - req'[c].at >= req'[c].ttl * MsPerSec]

Returned(c, s, t, res) ==
    last' = [NoCall EXCEPT !.op = "acquireLock", !.stack = s, !.holder = c, !.ttl = t,
               !.res = res]

\* the INSERT that ends acquireLock, and the return or throw that follows it
insertStep(c) ==
    LET ins == InsertLock(locks, LockRow(req[c].stack, c, now, req[c].ttl))
    IN /\ locks' = ins.tbl
       /\ pc' = [pc EXCEPT ![c] = IF ins.ok THEN "pass" ELSE "idle"]
       /\ req' = [req EXCEPT ![c].at = now]
       /\ Returned(c, req[c].stack, req[c].ttl, IF ins.ok THEN "ok" ELSE "ConstraintError")

\* the callers that are inside an acquireLock call on stack s
InCall(s) == {d \in Callers : pc[d] \in {"awaitCheck", "awaitRelease"} /\ req[d].stack = s}

\* acquireLock up to its first await: checkLock has run its SELECT
acquireCall(c, s, t) ==
    /\ pc[c] = "idle"
    /\ existingLock' = [existingLock EXCEPT ![c] = checkLockValue(locks, s)]
    /\ req' = [d \in Callers |->
                IF d = c THEN [stack |-> s, ttl |-> t, at |-> 0, met |-> InCall(s)]
                ELSE [req[d] EXCEPT !.met = IF d \in InCall(s) THEN @ \cup {c}
                                            ELSE @ \ {c}]]
    /\ pc' = [pc EXCEPT ![c] = "awaitCheck"]
    /\ UNCHANGED <<locks, state, now, last, lastSaved, lastStored, overran, providerVars, hostVars, audit_log>>

\* acquireLock from its first await to its second, or to its end
acquireResume(c) ==
    /\ pc[c] = "awaitCheck"
    /\ IF existingLock[c] # Null
       THEN IF NotExpired(existingLock[c], now)
            THEN /\ pc' = [pc EXCEPT ![c] = "idle"]
                 /\ Returned(c, req[c].stack, req[c].ttl, "LockConflict")
                 /\ UNCHANGED <<locks, req>>
            ELSE /\ locks' = DeleteLock(locks, req[c].stack)
                 /\ pc' = [pc EXCEPT ![c] = "awaitRelease"]
                 /\ UNCHANGED <<last, req>>
       ELSE insertStep(c)
    /\ UNCHANGED <<state, now, lastSaved, lastStored, existingLock, providerVars, hostVars, audit_log>>
    /\ NoteOverrun

\* acquireLock from its second await to its end
acquireInsert(c) ==
    /\ pc[c] = "awaitRelease"
    /\ insertStep(c)
    /\ UNCHANGED <<state, now, lastSaved, lastStored, existingLock, providerVars, hostVars, audit_log>>
    /\ NoteOverrun

\* the pass is over: the caller's own releaseLock
passRelease(c) ==
    /\ pc[c] = "pass"
    /\ locks' = DeleteLock(locks, req[c].stack)
    /\ pc' = [pc EXCEPT ![c] = "idle"]
    /\ UNCHANGED <<state, now, last, lastSaved, lastStored, existingLock, req, overran, providerVars, hostVars, audit_log>>

\* the pass ends without releaseLock (the process of the caller is gone): the lock
\* row stays behind, and a later invocation of the caller may call acquireLock again
passAbandon(c) ==
    /\ pc[c] = "pass"
    /\ pc' = [pc EXCEPT ![c] = "idle"]
    /\ UNCHANGED <<locks, state, now, last, lastSaved, lastStored, existingLock, req, overran, providerVars, hostVars, audit_log>>

\* releaseLock and checkLock called by a caller that is not in a pass
idleRelease(c, s) ==
    /\ pc[c] = "idle"
    /\ locks' = DeleteLock(locks, s)
    /\ last' = [NoCall EXCEPT !.op = "releaseLock", !.stack = s, !.holder = c, !.res = "ok"]
    /\ UNCHANGED <<state, now, lastSaved, lastStored, callerVars, providerVars, hostVars, audit_log>>

idleCheck(c, s) ==
    /\ pc[c] = "idle"
    /\ last' = [NoCall EXCEPT !.op = "checkLock", !.stack = s, !.holder = c, !.res = "ok",
                  !.ret = checkLockValue(locks, s)]
    /\ UNCHANGED <<locks, state, now, lastSaved, lastStored, callerVars, providerVars, hostVars, audit_log>>

CallerTick ==
    /\ Tick
    /\ UNCHANGED <<pc, req>>
    /\ UNCHANGED <<locks, state, last, lastSaved, lastStored, existingLock, providerVars, hostVars, audit_log>>
    /\ NoteOverrun

\* SpecProtocol: every caller runs acquireLock, its pass, releaseLock; the steps of
\* the callers interleave at the awaits
NextProtocol ==
    \/ \E c \in Callers, s \in Stacks, t \in RaceTTLs : acquireCall(c, s, t)
    \/ \E c \in Callers : acquireResume(c)
    \/ \E c \in Callers : acquireInsert(c)
    \/ \E c \in Callers : passRelease(c)
    \/ CallerTick

\* SpecRace: as SpecProtocol, and any idle caller may call releaseLock or checkLock
NextRace ==
    \/ NextProtocol
    \/ \E c \in Callers, s \in Stacks : idleRelease(c, s)
    \/ \E c \in Callers, s \in Stacks : idleCheck(c, s)

\* SpecOverlap: acquireLock calls only, on stacks whose lock may have been left
\* behind; the steps of the calls interleave at the awaits
NextOverlap ==
    \/ \E c \in Callers, s \in {"stack-a"}, t \in RaceTTLs : acquireCall(c, s, t)
    \/ \E c \in Callers : acquireResume(c)
    \/ \E c \in Callers : acquireInsert(c)
    \/ \E c \in Callers : passAbandon(c)
    \/ CallerTick

\* SpecSerial: as SpecProtocol, but no acquireLock call overlaps another call
serialAcquire(c, s, t) ==
    LET run == acquireLockRun(locks, s, c, t, now)
    IN /\ pc[c] = "idle"
       /\ locks' = run.tbl
       /\ pc' = [pc EXCEPT ![c] = IF run.res = "ok" THEN "pass" ELSE "idle"]
       /\ req' = [req EXCEPT ![c] = [stack |-> s, ttl |-> t, at |-> now, met |-> {}]]
       /\ last' = [NoCall EXCEPT !.op = "acquireLock", !.stack = s, !.holder = c, !.ttl = t,
                     !.res = run.res, !.errHolder = run.errHolder, !.errAge = run.errAge,
                     !.purged = run.purged]
       /\ UNCHANGED <<state, now, lastSaved, lastStored, existingLock, providerVars, hostVars, audit_log>>
       /\ NoteOverrun

NextSerial ==
    \/ \E c \in Callers, s \in Stacks, t \in TTLs : serialAcquire(c, s, t)
    \/ \E c \in Callers : passRelease(c)
    \/ CallerTick

----------------------------------------------------------------------------
\* RealHttpServerProvider.  The managed kind is 'WebServer' ('HttpServer' in
\* src/unnamed/part_002, which has the same operations and preDeploy).

NodeIds == {"web-a", "web-b", "other"}
Ports == {8080, 8081}
\* the nodes that the orchestrator renders with a changed port
Rerendered == {"web-a"}
MaxSpawns == 2

constructType(n) == IF n = "other" THEN "Other" ELSE "WebServer"

\* node.outputs = undefined
NoOutputs == [none |-> TRUE]
\* a key that the outputs object does not have
NoPid == 0

Url(port) == <<"http://localhost:", port>>

Pids == DOMAIN os

\* a worker is bound to its port while it is "listening" (answers requests) or "mute"
\* (accepts the connection and never answers); "starting": alive, not bound;
\* "dead": exited; "failed": spawn emitted 'error', there is no process
Bound(port) == \E p \in Pids : os[p].port = port /\ os[p].st \in {"listening", "mute"}

\* the http.get of checkServerAlive and waitForServer: "response", "error", or
\* "pending" (req.setTimeout(1000) has no handler: a request that is accepted and
\* never answered neither resolves nor rejects)
httpGet(port) ==
    IF \E p \in Pids : os[p].port = port /\ os[p].st = "listening" THEN "response"
    ELSE IF \E p \in Pids : os[p].port = port /\ os[p].st = "mute" THEN "pending"
    ELSE "error"

\* props.name of the nodes, and the versions of props.content
siteName(n) == CASE n = "web-a" -> "site-a" [] n = "web-b" -> "site-b" [] OTHER -> "none"
SiteNames == {"site-a", "site-b"}
Contents == {"v1", "v2"}
\* no index.html under sites/<name>
NoFile == "<no file>"

\* fs.mkdirSync(siteDir) when it is missing, fs.writeFileSync(indexPath, content)
writeSite(fs, name, content) == [fs EXCEPT ![name] = content]

\* the files after deployWebServer(node) has passed its reuse check: the site is
\* written on the way to the spawn only
siteWrittenAlways(fs, props, spawning) == writeSite(fs, props.name, props.content)
siteWritten(fs, props, spawning) ==
    IF spawning THEN writeSite(fs, props.name, props.content) ELSE fs

NoProviderCall ==
    [op |-> "none", node |-> "", res |-> "none", path |-> "", probed |-> FALSE,
     hasDrifted |-> FALSE, expectedState |-> NoOutputs, actualState |-> NoOutputs,
     driftDescription |-> FALSE, port |-> 0, first |-> FALSE, batch |-> <<>>,
     cleared |-> {}, rest |-> <<>>]

InitProvider ==
    /\ nodes = [n \in NodeIds |->
                  [constructType |-> constructType(n),
                   props |-> [name |-> siteName(n),
                              port |-> IF n = "web-b" THEN 8081 ELSE 8080,
                              content |-> "v1"],
                   outputs |-> NoOutputs]]
    /\ processes = <<>>
    /\ os = <<>>
    /\ call = "idle"
    /\ queue = <<>>
    /\ plast = NoProviderCall
    /\ files = [name \in SiteNames |-> NoFile]

\* what the worker spawned by deployWebServer does
SpawnOutcomes ==
    {"ready", "spawnError", "exitCode", "startupTimeout", "pollExhausted", "pollPending"}

outcomeState(o) ==
    CASE o = "ready" -> "listening"
      [] o = "spawnError" -> "failed"
      [] o = "exitCode" -> "dead"
      [] o = "pollPending" -> "mute"
      [] OTHER -> "starting"

outcomeResult(o) ==
    CASE o = "ready" -> "ok"
      [] o = "spawnError" -> "SpawnError"
      [] o = "exitCode" -> "ExitCode"
      [] o = "startupTimeout" -> "StartupTimeout"
      [] o = "pollExhausted" -> "PollFailed"
      [] OTHER -> "pending"

\* deployWebServer(node), the worker behaving as o: the node, the process table and
\* the workers it leaves, and how it ends
deployWebServer(n, o) ==
    LET port == nodes[n].props.port
        existingProcess == IF n \in DOMAIN processes THEN processes[n] ELSE Null
        \* the stale reference is deleted before the spawn
        kept == IF existingProcess # Null
                THEN [x \in (DOMAIN processes) \ {n} |-> processes[x]]
                ELSE processes
        pid == Len(os) + 1
        spawned == Append(os, [id |-> n, port |-> port, st |-> outcomeState(o)])
    IN IF existingProcess # Null /\ ~existingProcess.killed
       THEN [outputs |-> [url |-> Url(port), port |-> port, status |-> "running",
                          pid |-> NoPid],
             processes |-> processes, os |-> os, res |-> "ok", path |-> "reuse"]
       ELSE IF o = "ready"
       THEN [outputs |-> [url |-> Url(port), port |-> port, status |-> "running",
                          pid |-> pid],
             processes |-> [x \in (DOMAIN kept) \cup {n} |->
                              IF x = n THEN [pid |-> pid, killed |-> FALSE]
                              ELSE kept[x]],
             os |-> spawned, res |-> "ok", path |-> "spawn"]
       ELSE [outputs |-> nodes[n].outputs, processes |-> kept, os |-> spawned,
             res |-> outcomeResult(o), path |-> "spawn"]

\* whether deployWebServer(n) would spawn, and whether the worker can behave as o
WouldSpawn(n) == ~(n \in DOMAIN processes /\ ~processes[n].killed)
CanBehave(n, o) ==
    /\ Len(os) < MaxSpawns
    /\ o \in {"ready", "pollPending"} => ~Bound(nodes[n].props.port)

Batches ==
    {<<n>> : n \in NodeIds} \cup {<<"web-a", "web-b">>, <<"other", "web-a">>}

\* materialize(nodes) is called
materialize(b) ==
    /\ call = "idle"
    /\ call' = "materialize"
    /\ queue' = b
    /\ UNCHANGED <<nodes, processes, os, plast, backendVars, callerVars, hostVars>>

\* one turn of the loop of materialize, on the first node not yet deployed
materializeNode ==
    /\ call = "materialize"
    /\ queue # <<>>
    /\ LET n == Head(queue)
       IN IF nodes[n].constructType # "WebServer"
          THEN /\ queue' = Tail(queue)
               /\ call' = IF Tail(queue) = <<>> THEN "idle" ELSE "materialize"
               /\ plast' = [NoProviderCall EXCEPT !.op = "materialize", !.node = n,
                              !.res = "ok", !.path = "skip"]
               /\ UNCHANGED <<nodes, processes, os, files>>
          ELSE \E o \in SpawnOutcomes :
               /\ WouldSpawn(n) => CanBehave(n, o)
               /\ LET d == deployWebServer(n, o)
                  IN /\ nodes' = [nodes EXCEPT ![n].outputs = d.outputs]
                     /\ processes' = d.processes
                     /\ os' = d.os
                     /\ plast' = [NoProviderCall EXCEPT
                                    !.op = "materialize", !.node = n, !.res = d.res,
                                    !.path = d.path, !.port = nodes[n].props.port,
                                    !.first = (plast.op = "materialize" /\ plast.node = n
                                               /\ plast.res = "ok" /\ plast.path = "spawn"
                                               /\ plast.port = nodes[n].props.port)]
                     /\ files' = siteWritten(files, nodes[n].props, d.path = "spawn")
                     /\ queue' = IF d.res = "ok" THEN Tail(queue) ELSE <<>>
                     /\ call' = CASE d.res = "pending" -> "hung"
                                  [] d.res = "ok" /\ Tail(queue) # <<>> -> "materialize"
                                  [] OTHER -> "idle"
    /\ UNCHANGED <<backendVars, callerVars, startupVars, teardownVars>>

\* checkServerAlive(port): TRUE, FALSE, or "pending" when its promise never settles
checkServerAlive(port) ==
    CASE httpGet(port) = "response" -> "alive"
      [] httpGet(port) = "error" -> "notAlive"
      [] OTHER -> "pending"

HasPort(n) == nodes[n].outputs # NoOutputs

detectDriftReport(n) ==
    IF nodes[n].constructType # "WebServer" \/ ~HasPort(n)
    THEN [NoProviderCall EXCEPT !.op = "detectDrift", !.node = n, !.res = "ok"]
    ELSE LET isAlive == checkServerAlive(nodes[n].outputs.port)
         IN [NoProviderCall EXCEPT
               !.op = "detectDrift", !.node = n, !.probed = TRUE,
               !.res = IF isAlive = "pending" THEN "pending" ELSE "ok",
               !.hasDrifted = (isAlive = "notAlive"),
               !.expectedState = nodes[n].outputs,
               !.actualState = IF isAlive = "alive" THEN nodes[n].outputs ELSE NoOutputs,
               !.driftDescription = (isAlive = "notAlive")]

detectDriftInverted(n) ==
    /\ call = "idle"
    /\ plast' = [detectDriftReport(n) EXCEPT !.hasDrifted = ~detectDriftReport(n).hasDrifted]
    /\ call' = IF plast'.res = "pending" THEN "hung" ELSE "idle"
    /\ UNCHANGED <<nodes, processes, os, queue, backendVars, callerVars, hostVars>>

detectDriftClearing(n) ==
    /\ call = "idle"
    /\ plast' = detectDriftReport(n)
    /\ call' = IF plast'.res = "pending" THEN "hung" ELSE "idle"
    /\ nodes' = [nodes EXCEPT ![n].outputs =
                   IF plast'.hasDrifted THEN NoOutputs ELSE nodes[n].outputs]
    /\ UNCHANGED <<processes, os, queue, backendVars, callerVars, hostVars>>

detectDrift(n) ==
    /\ call = "idle"
    /\ plast' = detectDriftReport(n)
    /\ call' = IF plast'.res = "pending" THEN "hung" ELSE "idle"
    /\ UNCHANGED <<nodes, processes, os, queue, backendVars, callerVars, hostVars>>

\* refreshState with the clearing assignment left out
refreshStateKeeping(n) ==
    /\ call = "idle"
    /\ plast' = [NoProviderCall EXCEPT !.op = "refreshState", !.node = n, !.res = "ok"]
    /\ UNCHANGED <<nodes, processes, os, call, queue, backendVars, callerVars, hostVars>>

refreshState(n) ==
    /\ call = "idle"
    /\ IF nodes[n].constructType # "WebServer" \/ ~HasPort(n)
       THEN /\ plast' = [NoProviderCall EXCEPT !.op = "refreshState", !.node = n,
                           !.res = "ok"]
            /\ UNCHANGED <<nodes, call>>
       ELSE LET isAlive == checkServerAlive(nodes[n].outputs.port)
            IN /\ plast' = [NoProviderCall EXCEPT
                              !.op = "refreshState", !.node = n, !.probed = TRUE,
                              !.res = IF isAlive = "pending" THEN "pending" ELSE "ok"]
               /\ nodes' = [nodes EXCEPT ![n].outputs =
                              IF isAlive = "notAlive" THEN NoOutputs ELSE nodes[n].outputs]
               /\ call' = IF isAlive = "pending" THEN "hung" ELSE "idle"
    /\ UNCHANGED <<processes, os, queue, backendVars, callerVars, hostVars>>

\* a sweep that looks at the first node of the batch only
preDeploySweepHead(b, i, ns) ==
    LET n == b[1]
    IN IF ns[n].constructType = "WebServer" /\ ns[n].outputs # NoOutputs
       THEN LET isAlive == checkServerAlive(ns[n].outputs.port)
            IN IF isAlive = "pending" THEN [nodes |-> ns, res |-> "pending"]
               ELSE IF isAlive = "notAlive"
               THEN [nodes |-> [ns EXCEPT ![n].outputs = NoOutputs], res |-> "ok"]
               ELSE [nodes |-> ns, res |-> "ok"]
       ELSE [nodes |-> ns, res |-> "ok"]

\* preDeploy(nodes): the nodes after the sweep of batch b from its i-th node on, and
\* whether the sweep came to its end
RECURSIVE preDeploySweep(_, _, _)
preDeploySweep(b, i, ns) ==
    IF i > Len(b) THEN [nodes |-> ns, res |-> "ok"]
    ELSE LET n == b[i]
         IN IF ns[n].constructType = "WebServer" /\ ns[n].outputs # NoOutputs
            THEN LET isAlive == checkServerAlive(ns[n].outputs.port)
                 IN IF isAlive = "pending" THEN [nodes |-> ns, res |-> "pending"]
                    ELSE IF isAlive = "notAlive"
                    THEN preDeploySweep(b, i + 1, [ns EXCEPT ![n].outputs = NoOutputs])
                    ELSE preDeploySweep(b, i + 1, ns)
            ELSE preDeploySweep(b, i + 1, ns)

preDeployForgetting(b) ==
    /\ call = "idle"
    /\ LET sweep == preDeploySweep(b, 1, nodes)
           cleared == {n \in NodeIds : /\ nodes[n].outputs # NoOutputs
                                       /\ sweep.nodes[n].outputs = NoOutputs}
       IN /\ nodes' = sweep.nodes
          /\ processes' = [x \in (DOMAIN processes) \ cleared |-> processes[x]]
          /\ call' = IF sweep.res = "pending" THEN "hung" ELSE "idle"
          /\ plast' = [NoProviderCall EXCEPT
                         !.op = "preDeploy", !.node = b[1], !.res = sweep.res,
                         !.batch = b, !.cleared = cleared]
    /\ UNCHANGED <<os, queue, backendVars, callerVars, hostVars>>

preDeploy(b) ==
    /\ call = "idle"
    /\ LET sweep == preDeploySweep(b, 1, nodes)
       IN /\ nodes' = sweep.nodes
          /\ call' = IF sweep.res = "pending" THEN "hung" ELSE "idle"
          /\ plast' = [NoProviderCall EXCEPT
                         !.op = "preDeploy", !.node = b[1], !.res = sweep.res,
                         !.batch = b,
                         !.cleared = {n \in NodeIds : /\ nodes[n].outputs # NoOutputs
                                                      /\ sweep.nodes[n].outputs = NoOutputs}]
    /\ UNCHANGED <<processes, os, queue, backendVars, callerVars, hostVars>>

\* the orchestrator renders the node with another port
setProps(n, port) ==
    /\ call = "idle"
    /\ nodes[n].constructType = "WebServer"
    /\ nodes[n].props.port # port
    /\ nodes' = [nodes EXCEPT ![n].props.port = port]
    /\ UNCHANGED <<processes, os, call, queue, plast, backendVars, callerVars, hostVars>>

\* the orchestrator renders the node with another content
setContent(n, c) ==
    /\ call = "idle"
    /\ nodes[n].constructType = "WebServer"
    /\ nodes[n].props.content # c
    /\ nodes' = [nodes EXCEPT ![n].props.content = c]
    /\ UNCHANGED <<processes, os, call, queue, plast, backendVars, callerVars, hostVars>>

\* a worker dies, or stops answering, without the provider having a part in it
killOutOfBand(p) ==
    /\ os[p].st \in {"listening", "mute", "starting"}
    /\ os' = [os EXCEPT ![p].st = "dead"]
    /\ UNCHANGED <<nodes, processes, call, queue, plast, backendVars, callerVars, hostVars>>

stopAnswering(p) ==
    /\ os[p].st = "listening"
    /\ os' = [os EXCEPT ![p].st = "mute"]
    /\ UNCHANGED <<nodes, processes, call, queue, plast, backendVars, callerVars, hostVars>>

NextProvider ==
    \/ \E b \in Batches : materialize(b)
    \/ materializeNode
    \/ \E b \in Batches : preDeploy(b)
    \/ \E n \in NodeIds : detectDrift(n)
    \/ \E n \in NodeIds : refreshState(n)
    \/ \E n \in Rerendered, port \in Ports : setProps(n, port)
    \/ \E p \in Pids : killOutOfBand(p)
    \/ \E p \in Pids : stopAnswering(p)

----------------------------------------------------------------------------
\* deployWebServer step by step: the spawn, the startup wait on the worker's events
\* and its timer, and the retry loop of waitForServer

\* setTimeout(..., 10000) of the startup wait
StartupTimeoutMs == 10000
\* waitForServer(port, maxRetries = 10)
maxRetriesOneMore == 10 + 1
maxRetries == 10
\* setTimeout(resolve, 500) between two attempts
RetryDelayMs == 500
\* the code of the worker's 'exit' event; null when a signal ended it
ExitCodes == {"0", "1", "null"}

\* late: the event of the worker that arrived after its startup wait had settled
NoDeploy == [node |-> "", port |-> 0, pid |-> 0, i |-> 0, slept |-> 0, late |-> ""]

InitStartup ==
    /\ deploy = NoDeploy
    /\ timer = 0

\* this.processes.set(node.id, serverProcess)
registeredNothing(procs, n, pid) == procs
registered(procs, n, pid) ==
    [x \in (DOMAIN procs) \cup {n} |->
        IF x = n THEN [pid |-> pid, killed |-> FALSE] ELSE procs[x]]

\* the 'exit' listener of the startup wait rejects for these codes
exitRejectsAlways(code) == TRUE
exitRejects(code) == code # "0" /\ code # "null"

\* the next turn of the loop of materialize after the node at the head is done
nextNode ==
    /\ queue' = Tail(queue)
    /\ call' = IF Tail(queue) = <<>> THEN "idle" ELSE "materialize"

\* `await this.deployWebServer(node)` with the startup wait begun: the loop of
\* materialize stays at the node until the promise settles
loopGoesOn ==
    /\ queue' = Tail(queue)
    /\ call' = IF Tail(queue) = <<>> THEN "startupWait" ELSE "materialize"
awaitDeployWebServer ==
    /\ call' = "startupWait"
    /\ queue' = queue

\* the startup wait or waitForServer rejected: deployWebServer and materialize throw
throwsAndGoesOn(err) ==
    /\ plast' = [NoProviderCall EXCEPT !.op = "materialize", !.node = deploy.node,
                   !.res = err, !.path = "spawn", !.port = deploy.port,
                   !.rest = Tail(queue)]
    /\ queue' = Tail(queue)
    /\ call' = IF Tail(queue) = <<>> THEN "idle" ELSE "materialize"
    /\ timer' = 0
    /\ UNCHANGED <<nodes, processes, deploy>>
throwsAfterOutputs(err) ==
    /\ plast' = [NoProviderCall EXCEPT !.op = "materialize", !.node = deploy.node,
                   !.res = err, !.path = "spawn", !.port = deploy.port,
                   !.rest = Tail(queue)]
    /\ nodes' = [nodes EXCEPT ![deploy.node].outputs =
                   [url |-> Url(deploy.port), port |-> deploy.port, status |-> "running",
                    pid |-> deploy.pid]]
    /\ queue' = <<>>
    /\ call' = "idle"
    /\ timer' = 0
    /\ UNCHANGED <<processes, deploy>>
throws(err) ==
    /\ plast' = [NoProviderCall EXCEPT !.op = "materialize", !.node = deploy.node,
                   !.res = err, !.path = "spawn", !.port = deploy.port,
                   !.rest = Tail(queue)]
    /\ queue' = <<>>
    /\ call' = "idle"
    /\ timer' = 0
    /\ UNCHANGED <<nodes, processes, deploy>>

\* materialize reaches a node: deployWebServer up to the spawn and the start of the
\* startup wait
deployBegin ==
    /\ call = "materialize"
    /\ queue # <<>>
    /\ LET n == Head(queue)
           port == nodes[n].props.port
           existingProcess == IF n \in DOMAIN processes THEN processes[n] ELSE Null
       IN IF nodes[n].constructType # "WebServer"
          THEN /\ nextNode
               /\ plast' = [NoProviderCall EXCEPT !.op = "materialize", !.node = n,
                              !.res = "ok", !.path = "skip"]
               /\ UNCHANGED <<nodes, processes, os, deploy, timer, files>>
          ELSE IF existingProcess # Null /\ ~existingProcess.killed
          THEN /\ nextNode
               /\ nodes' = [nodes EXCEPT ![n].outputs =
                              [url |-> Url(port), port |-> port, status |-> "running",
                               pid |-> NoPid]]
               /\ plast' = [NoProviderCall EXCEPT !.op = "materialize", !.node = n,
                              !.res = "ok", !.path = "reuse", !.port = port]
               /\ files' = siteWritten(files, nodes[n].props, FALSE)
               /\ UNCHANGED <<processes, os, deploy, timer>>
          ELSE /\ Len(os) < MaxSpawns
               /\ processes' = [x \in (DOMAIN processes) \ {n} |-> processes[x]]
               /\ files' = siteWritten(files, nodes[n].props, TRUE)
               /\ os' = Append(os, [id |-> n, port |-> port, st |-> "starting"])
               /\ deploy' = [node |-> n, port |-> port, pid |-> Len(os) + 1, i |-> 0,
                             slept |-> 0, late |-> ""]
               /\ timer' = 0
               /\ awaitDeployWebServer
               /\ UNCHANGED <<nodes, plast>>
    /\ UNCHANGED <<backendVars, callerVars, teardownVars>>

\* time passes during the startup wait; the timer fires no later than it is due
startupTick ==
    /\ call = "startupWait"
    /\ timer < StartupTimeoutMs
    /\ timer' = timer + TickMs
    /\ UNCHANGED <<nodes, processes, os, call, queue, plast, deploy>>
    /\ UNCHANGED <<backendVars, callerVars, teardownVars, files>>

\* the timer of the startup wait fires: reject(new Error('Server startup timeout'))
startupTimeoutResolves ==
    /\ call = "startupWait"
    /\ timer = StartupTimeoutMs
    /\ call' = "poll"
    /\ timer' = 0
    /\ UNCHANGED <<nodes, processes, os, queue, plast, deploy>>
    /\ UNCHANGED <<backendVars, callerVars, teardownVars, files>>

startupTimeout ==
    /\ call = "startupWait"
    /\ timer = StartupTimeoutMs
    /\ throws("StartupTimeout")
    /\ UNCHANGED <<os, backendVars, callerVars, teardownVars, files>>

\* the worker writes 'Available on' / 'Hit CTRL-C to stop' to its stdout
stdoutReady ==
    /\ call = "startupWait"
    /\ os[deploy.pid].st \in {"starting", "listening", "mute"}
    /\ call' = "poll"
    /\ timer' = 0
    /\ UNCHANGED <<nodes, processes, os, queue, plast, deploy>>
    /\ UNCHANGED <<backendVars, callerVars, teardownVars, files>>

\* the spawn fails: the handle emits 'error'
spawnError ==
    /\ call = "startupWait"
    /\ os[deploy.pid].st = "starting"
    /\ os' = [os EXCEPT ![deploy.pid].st = "failed"]
    /\ throws("SpawnError")
    /\ UNCHANGED <<backendVars, callerVars, teardownVars, files>>

\* the awaited worker exits with the given code during the startup wait
workerExit(code) ==
    /\ call = "startupWait"
    /\ os[deploy.pid].st \in {"starting", "listening", "mute"}
    /\ os' = [os EXCEPT ![deploy.pid].st = "dead"]
    /\ IF exitRejects(code)
       THEN throws("ExitCode")
       ELSE UNCHANGED <<nodes, processes, call, queue, plast, deploy, timer>>
    /\ UNCHANGED <<backendVars, callerVars, teardownVars, files>>

\* resolve or reject called on the promise of the startup wait after it has
\* settled: the call is ignored
lateSettleActs(e) ==
    /\ IF e = "stdout"
       THEN /\ call' = "poll"
            /\ UNCHANGED <<queue, plast>>
       ELSE /\ call' = "idle"
            /\ queue' = <<>>
            /\ plast' = [NoProviderCall EXCEPT !.op = "materialize", !.node = deploy.node,
                           !.res = IF e = "exit" THEN "ExitCode" ELSE "SpawnError",
                           !.path = "spawn", !.port = deploy.port]
    /\ UNCHANGED <<nodes, processes, timer>>
lateSettle(e) ==
    UNCHANGED <<nodes, processes, call, queue, plast, timer>>

\* the listeners of the startup wait stay on the worker: its readiness line, an
\* 'error' or its 'exit' with a non-zero code arrives after the wait has settled
lateEvent(e) ==
    /\ call # "startupWait"
    /\ deploy.pid # NoPid
    /\ deploy.late = ""
    /\ os[deploy.pid].st \in {"starting", "listening", "mute"}
    /\ os' = IF e = "exit" THEN [os EXCEPT ![deploy.pid].st = "dead"] ELSE os
    /\ deploy' = [deploy EXCEPT !.late = e]
    /\ lateSettle(e)
    /\ UNCHANGED <<backendVars, callerVars, teardownVars, files>>

\* a worker binds its port and answers requests from then on
workerListens(p) ==
    /\ os[p].st = "starting"
    /\ ~Bound(os[p].port)
    /\ os' = [os EXCEPT ![p].st = "listening"]
    /\ UNCHANGED <<nodes, processes, call, queue, plast, backendVars, callerVars, hostVars>>

\* one attempt of waitForServer; on a response deployWebServer registers the handle
\* and writes the outputs
pollAttempt ==
    /\ call = "poll"
    /\ LET n == deploy.node
           got == httpGet(deploy.port)
       IN CASE got = "response" ->
                 /\ processes' = registered(processes, n, deploy.pid)
                 /\ nodes' = [nodes EXCEPT ![n].outputs =
                                [url |-> Url(deploy.port), port |-> deploy.port,
                                 status |-> "running", pid |-> deploy.pid]]
                 /\ plast' = [NoProviderCall EXCEPT !.op = "materialize", !.node = n,
                                !.res = "ok", !.path = "spawn", !.port = deploy.port]
                 /\ nextNode
                 /\ UNCHANGED <<deploy, timer>>
            [] got = "error" ->
                 IF deploy.i = maxRetries - 1
                 THEN throws("PollFailed")
                 ELSE /\ call' = "pollDelay"
                      /\ timer' = 0
                      /\ UNCHANGED <<nodes, processes, queue, plast, deploy>>
            [] OTHER ->
                 /\ call' = "pollPending"
                 /\ UNCHANGED <<nodes, processes, queue, plast, deploy, timer>>
    /\ UNCHANGED <<os, backendVars, callerVars, teardownVars, files>>

\* the request that was accepted and not answered ends with the connection, when the
\* worker that accepted it is gone: 'error'
pollReset ==
    /\ call = "pollPending"
    /\ httpGet(deploy.port) # "pending"
    /\ IF deploy.i = maxRetries - 1
       THEN throws("PollFailed")
       ELSE /\ call' = "pollDelay"
            /\ timer' = 0
            /\ UNCHANGED <<nodes, processes, queue, plast, deploy>>
    /\ UNCHANGED <<os, backendVars, callerVars, teardownVars, files>>

\* the pause between two attempts
pollDelayTick ==
    /\ call = "pollDelay"
    /\ timer < RetryDelayMs
    /\ timer' = timer + TickMs
    /\ UNCHANGED <<nodes, processes, os, call, queue, plast, deploy>>
    /\ UNCHANGED <<backendVars, callerVars, teardownVars, files>>

pollDelayDone ==
    /\ call = "pollDelay"
    /\ timer = RetryDelayMs
    /\ deploy' = [deploy EXCEPT !.i = deploy.i + 1, !.slept = deploy.slept + RetryDelayMs]
    /\ call' = "poll"
    /\ timer' = 0
    /\ UNCHANGED <<nodes, processes, os, queue, plast>>
    /\ UNCHANGED <<backendVars, callerVars, teardownVars, files>>

\* the steps of the provider that its own code and timers take
StartupProgress ==
    \/ deployBegin
    \/ startupTick
    \/ startupTimeout
    \/ pollAttempt
    \/ pollReset
    \/ pollDelayTick
    \/ pollDelayDone

NextStartup ==
    \/ \E b \in Batches : Len(os) + Len(b) <= MaxSpawns /\ materialize(b)
    \/ StartupProgress
    \/ stdoutReady
    \/ spawnError
    \/ \E code \in ExitCodes : workerExit(code)
    \/ \E p \in Pids : workerListens(p)
    \/ \E p \in Pids : (call = "startupWait" => p # deploy.pid) /\ killOutOfBand(p)
    \/ \E p \in Pids : stopAnswering(p)
    \/ \E n \in Rerendered, c \in Contents : setContent(n, c)
    \/ \E e \in {"stdout", "error", "exit"} : lateEvent(e)

\* materialize step by step together with the other operations of the provider
NextOperations ==
    \/ NextStartup
    \/ \E b \in Batches : preDeploy(b)
    \/ \E n \in NodeIds : detectDrift(n)
    \/ \E n \in NodeIds : refreshState(n)

----------------------------------------------------------------------------
\* The host process and the teardown of the workers

Events == {"exit", "SIGINT", "SIGTERM"}

NoTeardown == [op |-> "none", table |-> {}, live |-> {}, sent |-> {}, err |-> FALSE,
               again |-> FALSE]

\* one provider has been constructed: its constructor registered its listeners
InitTeardown ==
    /\ host = "running"
    /\ cleanupRegistered = <<TRUE>>
    /\ listeners = [e \in Events |-> 1]
    /\ signalled = {}
    /\ tlast = NoTeardown

\* the providers constructed in one host process
MaxInstances == 2
\* the platforms of tree-kill
Platforms == {"posix", "win32"}

\* registerCleanupHandlers() of an instance whose field cleanupRegistered is flag:
\* the listeners after it
registerCleanupHandlers(flag, ls) ==
    IF flag THEN ls ELSE [e \in Events |-> ls[e] + 1]

\* new RealHttpServerProvider(): the field starts false and the constructor calls
\* registerCleanupHandlers
construct ==
    /\ host = "running"
    /\ Len(cleanupRegistered) < MaxInstances
    /\ listeners' = registerCleanupHandlers(FALSE, listeners)
    /\ cleanupRegistered' = Append(cleanupRegistered, TRUE)
    /\ UNCHANGED <<host, signalled, tlast>>
    /\ UNCHANGED <<backendVars, callerVars, providerVars, startupVars, files>>

\* the workers in the process table, and those of them that have not exited
TablePids == {processes[n].pid : n \in DOMAIN processes}
LivePids == {p \in TablePids : os[p].st \in {"starting", "listening", "mute"}}

\* the workers after SIGTERM has reached those in ps
terminated(ps) ==
    [p \in DOMAIN os |-> IF p \in ps THEN [os[p] EXCEPT !.st = "dead"] ELSE os[p]]

\* cleanup() (src/unnamed/part_002): handle.kill('SIGTERM') on every handle, which
\* sends the signal to a worker that has not exited, returns false for one that has
\* and does not throw; then processes.clear()
cleanup ==
    /\ host = "running"
    /\ call = "idle"
    /\ os' = terminated(LivePids)
    /\ signalled' = signalled \cup LivePids
    /\ processes' = <<>>
    /\ tlast' = [op |-> "cleanup", table |-> TablePids, live |-> LivePids,
                 sent |-> LivePids, err |-> FALSE,
                 again |-> (tlast.op # "none" /\ processes = <<>>)]
    /\ UNCHANGED <<nodes, call, queue, plast, host, cleanupRegistered, listeners>>
    /\ UNCHANGED <<backendVars, callerVars, startupVars, files>>

\* the host process gets SIGINT or SIGTERM, or exits: the listener runs the cleanup
\* closure and, for a signal, process.exit(0), whose 'exit' event runs it again; then
\* the process is gone.  The closure hands every pid to tree-kill and clears the
\* table in a then() callback.  tree-kill starts taskkill at once on win32; on the
\* other platforms it sends the signal from the 'close' callback of a ps or pgrep
\* child, a later turn of the event loop that the exiting process does not reach,
\* no more than the then() callback.
hook(e, platform) ==
    /\ host = "running"
    /\ listeners[e] > 0
    /\ LET sent == IF platform = "win32" THEN LivePids ELSE {}
       IN /\ os' = terminated(sent)
          /\ signalled' = signalled \cup sent
          /\ tlast' = [op |-> "hook", table |-> TablePids, live |-> LivePids,
                       sent |-> sent, err |-> FALSE,
                       again |-> (tlast.op # "none" /\ processes = <<>>)]
    /\ host' = "exited"
    /\ UNCHANGED <<nodes, processes, call, queue, plast, cleanupRegistered, listeners>>
    /\ UNCHANGED <<backendVars, callerVars, startupVars, files>>

\* the provider runs as long as its host process does; the workers are processes
\* of their own
NextTeardown ==
    \/ \E b \in Batches : host = "running" /\ materialize(b)
    \/ host = "running" /\ materializeNode
    \/ construct
    \/ cleanup
    \/ \E e \in Events, platform \in Platforms : hook(e, platform)
    \/ \E p \in Pids : killOutOfBand(p)

----------------------------------------------------------------------------
\* Specifications

Init == InitBackend /\ InitCallers /\ InitProvider /\ InitStartup /\ InitTeardown

SpecLock == Init /\ [][NextLock]_vars
SpecStore == Init /\ [][NextStore]_vars
SpecProtocol == Init /\ [][NextProtocol]_vars
SpecRace == Init /\ [][NextRace]_vars
SpecSerial == Init /\ [][NextSerial]_vars
SpecOverlap == Init /\ [][NextOverlap]_vars
SpecProvider == Init /\ [][NextProvider]_vars
SpecStartup == Init /\ [][NextStartup]_vars
SpecTeardown == Init /\ [][NextTeardown]_vars
SpecAudit == Init /\ [][NextAudit]_vars
SpecStoreForeign == Init /\ [][NextStoreForeign]_vars
\* the event loop runs the provider's own steps and timers when they are due; the
\* workers and the orchestrator are under no obligation
SpecOperationsFair == Init /\ [][NextOperations]_vars /\ WF_vars(StartupProgress)

Spec == SpecProvider

----------------------------------------------------------------------------
\* Claims on the lock operations (SpecLock)

\* C2: acquireLock(s, h2, t2) called while the lock row of s is not expired
\* (now - acquiredAt < ttl*1000, ttl the one stored in the row) fails with a Lock
\* Conflict error that names the row's holder and the lock age in whole seconds,
\* for every h2, the current holder included, and leaves the row in place.
C2_ConflictWhileHeld ==
    [][\A s \in Stacks, h \in Holders, t \in TTLs :
         \A r \in LockRows(locks, s) :
            (acquireLock(s, h, t) /\ now - r.acquired_at < r.ttl * 1000)
            => /\ last'.res = "LockConflict"
               /\ last'.errHolder = r.holder
               /\ last'.errAge = (now - r.acquired_at) \div 1000
               /\ r \in locks']_vars

\* the current holder itself was refused, one whole second after it acquired
C2_Witness ==
    /\ last.op = "acquireLock" /\ last.res = "LockConflict"
    /\ last.errHolder = last.holder /\ last.errAge = 1

\* C6: acquireLock(s, h, t) on a stack that has a lock row of age a and stored ttl T
\* succeeds iff a >= T*1000; on success the single row of s holds holder h,
\* acquiredAt = the time of the call, and ttl t.
C6_ExpiryBoundary ==
    [][\A s \in Stacks, h \in Holders, t \in TTLs :
         \A r \in LockRows(locks, s) :
            acquireLock(s, h, t)
            => /\ (last'.res = "ok") <=> (now - r.acquired_at >= r.ttl * 1000)
               /\ (last'.res = "ok") => LockRows(locks', s) = {LockRow(s, h, now, t)}
               /\ (last'.res # "ok") => locks' = locks]_vars

\* an expired row of positive ttl was purged and replaced at the instant its ttl elapsed
C6_Witness ==
    /\ last.op = "acquireLock" /\ last.res = "ok" /\ last.purged
    /\ now = 1000
    /\ LockRow(last.stack, last.holder, now, last.ttl) \in locks

\* C7: releaseLock(s) always ends with no lock row of s and throws nothing, whether
\* or not a row existed; an acquireLock(s, h, t) that follows it with no other call
\* in between succeeds for every holder h.
C7_ReleaseThenAcquire ==
    /\ last.op = "releaseLock" => (LockRows(locks, last.stack) = {} /\ last.res = "ok")
    /\ (last.op = "acquireLock" /\ last.afterRelease)
       => (last.res = "ok" /\ \E r \in LockRows(locks, last.stack) : r.holder = last.holder)

C7_Witness ==
    /\ last.op = "acquireLock" /\ last.afterRelease /\ last.res = "ok"
    /\ LockRows(locks, last.stack) # {}

----------------------------------------------------------------------------
\* Claims on the state operations (SpecStore)

\* C8 as stated: getState(s) returns a value deep-equal to the argument of the most
\* recent saveState(s, v), and absent when saveState was never called for s.
C8_AsStated ==
    last.op = "getState"
    => last.ret = (IF lastSaved[last.stack] = Never THEN Undefined
                   ELSE lastSaved[last.stack])

\* a value that JSON text represents: no undefined and no NaN in it
JsonRepresentable(v) == v[2] \notin {"undefined", "NaN"}

\* what JSON text keeps of a value: a key whose value is undefined is dropped, NaN
\* becomes null
JsonImage(v) ==
    CASE v = <<"obj", "undefined">> -> <<"obj", "missing">>
      [] v[2] = "NaN" -> <<v[1], "null">>
      [] OTHER -> v

\* C8 (amended): getState(s) returns the JSON image of the argument of the most
\* recent saveState(s, v) that returned (last write wins), which is deep-equal to
\* that argument when it is JSON-representable; it returns absent when no
\* saveState for s has returned.
C8_LastWriteWins ==
    last.op = "getState"
    => LET v == lastStored[last.stack]
       IN /\ v = Never => last.ret = Undefined
          /\ v # Never => last.ret = JsonImage(v)
          /\ (v # Never /\ JsonRepresentable(v)) => last.ret = v

\* a second write to the stack replaced the first and was read back, while the other
\* stack holds a different value
C8_Witness ==
    /\ last.op = "getState" /\ last.ret = <<"obj", "1">>
    /\ lastStored[last.stack] = <<"obj", "1">>
    /\ \E r \in StateRows(state, last.stack) : r.updated_at > 0
    /\ \E s \in Stacks : s # last.stack /\ lastStored[s] = <<"obj", "missing">>

----------------------------------------------------------------------------
\* Claims on callers that bracket a pass with the lock

\* C1 as stated: for any interleaving of callers that each run acquireLock, a pass,
\* releaseLock on the same stack, at most one caller is between its successful
\* acquireLock and its own releaseLock.
C1_AsStated ==
    \A s \in Stacks : Cardinality({c \in Callers : InPass(c, s)}) <= 1

\* C1 (amended): when the acquireLock calls do not overlap one another and no
\* caller has been in its pass after the ttl of its lock had elapsed, at most one
\* caller is between its successful acquireLock and its own releaseLock.
C1_MutexWithinTtl ==
    \A s \in Stacks :
        ~overran[s] => Cardinality({c \in Callers : InPass(c, s)}) <= 1

\* a caller is in its pass one second after it acquired, within its ttl, and the
\* other caller has just been refused on that stack
C1_Witness ==
    \E c \in Callers :
        /\ InPass(c, last.stack) /\ ~overran[last.stack]
        /\ now - req[c].at = 1000
        /\ last.op = "acquireLock" /\ last.res = "LockConflict"
        /\ last.holder # c /\ last.errHolder = c

\* C5: under any interleaving of acquireLock, releaseLock and checkLock calls, each
\* stack has at most one lock row, hence at most one lock row that is not expired.
C5_OneRowPerStack ==
    \A s \in Stacks :
        /\ Cardinality(LockRows(locks, s)) <= 1
        /\ Cardinality({r \in LockRows(locks, s) :
                           now - r.acquired_at < r.ttl * 1000}) <= 1

\* two acquireLock calls on a stack overlapped and the later INSERT was rejected
C5_Witness ==
    /\ last.op = "acquireLock" /\ last.res = "ConstraintError"
    /\ \E r \in LockRows(locks, last.stack) : r.holder # last.holder

----------------------------------------------------------------------------
\* Claims on the provider (SpecProvider)

Tracked(n) == n \in DOMAIN processes
TrackedDead(n) == Tracked(n) /\ os[processes[n].pid].st = "dead"

\* C3 as stated: when the tracked worker of a node has died out-of-band and preDeploy
\* has cleared the node's outputs, the next materialize of the node spawns a new
\* worker; it does not report status "running" without a live server.
C3_RedeployAfterSweep ==
    [][(/\ materializeNode
        /\ plast.op = "preDeploy" /\ plast.res = "ok"
        /\ nodes[Head(queue)].constructType = "WebServer"
        /\ nodes[Head(queue)].outputs = NoOutputs
        /\ TrackedDead(Head(queue)))
       => /\ Len(os') = Len(os) + 1
          /\ ~(/\ nodes'[Head(queue)].outputs # NoOutputs
               /\ nodes'[Head(queue)].outputs.status = "running"
               /\ ~\E p \in DOMAIN os' :
                      /\ os'[p].port = nodes'[Head(queue)].outputs.port
                      /\ os'[p].st = "listening")]_vars

\* C4 as stated: materialize called twice in succession on a node with unchanged
\* props, the first call having spawned its worker, spawns no second process and
\* leaves the same outputs.pid on the node.
C4_SamePidOnRepeat ==
    [][(/\ materializeNode
        /\ plast.op = "materialize" /\ plast.node = Head(queue)
        /\ plast.res = "ok" /\ plast.path = "spawn"
        /\ plast.port = nodes[Head(queue)].props.port)
       => /\ os' = os
          /\ nodes'[Head(queue)].outputs # NoOutputs
          /\ nodes'[Head(queue)].outputs.pid = nodes[Head(queue)].outputs.pid]_vars

\* C9: detectDrift(node) returns hasDrifted = false without probing when the node is
\* not of the managed kind or has no recorded outputs.port; otherwise it returns
\* hasDrifted = true exactly when the probe of outputs.port gets no response, with
\* expectedState = node.outputs, actualState absent exactly when drifted and a
\* drift description exactly when drifted.
C9_DriftReport ==
    [][\A n \in NodeIds :
         (detectDrift(n) /\ call' = "idle")
         => IF nodes[n].constructType # "WebServer" \/ nodes[n].outputs = NoOutputs
            THEN ~plast'.hasDrifted /\ ~plast'.probed
            ELSE LET answered ==
                        \E p \in DOMAIN os : /\ os[p].port = nodes[n].outputs.port
                                             /\ os[p].st = "listening"
                 IN /\ plast'.probed
                    /\ plast'.hasDrifted <=> ~answered
                    /\ plast'.expectedState = nodes[n].outputs
                    /\ (plast'.actualState = NoOutputs) <=> plast'.hasDrifted
                    /\ ~plast'.hasDrifted => plast'.actualState = nodes[n].outputs
                    /\ plast'.driftDescription <=> plast'.hasDrifted]_vars

\* the worker of a deployed node is dead and detectDrift has reported the drift
C9_Witness ==
    /\ plast.op = "detectDrift" /\ plast.res = "ok" /\ plast.probed
    /\ plast.hasDrifted /\ plast.driftDescription
    /\ plast.expectedState # NoOutputs /\ plast.actualState = NoOutputs
    /\ TrackedDead(plast.node)

\* C10: detectDrift never changes the node, whatever the probe finds; of all the
\* provider operations only refreshState and preDeploy set outputs to absent.
C10_DetectDriftReadOnly ==
    [][/\ \A n \in NodeIds : detectDrift(n) => nodes' = nodes
       /\ (\E n \in NodeIds : nodes[n].outputs # NoOutputs /\ nodes'[n].outputs = NoOutputs)
          => \/ \E n \in NodeIds : refreshState(n)
             \/ \E b \in Batches : preDeploy(b)]_vars

\* detectDrift has found the worker killed out-of-band and the node keeps its outputs
C10_Witness ==
    /\ plast.op = "detectDrift" /\ plast.hasDrifted
    /\ TrackedDead(plast.node)
    /\ nodes[plast.node].outputs # NoOutputs
    /\ nodes[plast.node].outputs = plast.expectedState

\* the port of a node's recorded outputs gets a response / is refused
Answered(n) ==
    \E p \in DOMAIN os : os[p].port = nodes[n].outputs.port /\ os[p].st = "listening"
Refused(n) ==
    ~\E p \in DOMAIN os : /\ os[p].port = nodes[n].outputs.port
                           /\ os[p].st \in {"listening", "mute"}

\* C11: refreshState(node) sets node.outputs to absent if and only if the node is of
\* the managed kind, has a recorded outputs.port and the liveness probe of that port
\* fails; in every other case the node is left as it is, and no other node changes.
C11_RefreshClearsIffDead ==
    [][\A n \in NodeIds :
         refreshState(n)
         => IF /\ nodes[n].constructType = "WebServer"
               /\ nodes[n].outputs # NoOutputs
               /\ Refused(n)
            THEN nodes' = [nodes EXCEPT ![n].outputs = NoOutputs]
            ELSE nodes' = nodes]_vars

\* refreshState has cleared the outputs of a node whose tracked worker is dead, and
\* the other web server keeps its outputs
C11_Witness ==
    /\ plast.op = "refreshState" /\ plast.res = "ok" /\ plast.probed
    /\ TrackedDead(plast.node)
    /\ nodes[plast.node].outputs = NoOutputs
    /\ \E n \in NodeIds : nodes[n].outputs # NoOutputs

\* C12: after preDeploy(nodes) has returned, every node of the batch that is of the
\* managed kind and had a recorded outputs.port whose probe failed has outputs
\* absent, and every other node has its outputs as before.
C12_PreDeploySweep ==
    [][\A b \in Batches :
         (preDeploy(b) /\ call' = "idle")
         => \A n \in NodeIds :
               nodes'[n] =
                 IF /\ \E i \in 1..Len(b) : b[i] = n
                    /\ nodes[n].constructType = "WebServer"
                    /\ nodes[n].outputs # NoOutputs
                    /\ ~Answered(n)
                 THEN [nodes[n] EXCEPT !.outputs = NoOutputs]
                 ELSE nodes[n]]_vars

\* a sweep of two web servers cleared the second, whose worker is dead, and left
\* the first, whose worker answers
C12_Witness ==
    /\ plast.op = "preDeploy" /\ plast.res = "ok"
    /\ plast.batch = <<"web-a", "web-b">>
    /\ plast.cleared = {"web-b"} /\ TrackedDead("web-b")
    /\ nodes["web-a"].outputs # NoOutputs /\ Answered("web-a")

----------------------------------------------------------------------------
\* Claims on the waits of deployWebServer (SpecStartup, SpecOperationsFair)

\* the port that deployWebServer polls gets a response / is refused
PollAnswered ==
    \E p \in DOMAIN os : os[p].port = deploy.port /\ os[p].st = "listening"
PollRefused ==
    ~\E p \in DOMAIN os : os[p].port = deploy.port /\ os[p].st \in {"listening", "mute"}

\* C13: when materialize has spawned a worker for a node, the readiness line has
\* come and the HTTP poll gets its response, the process table holds the spawned
\* process under the node's id and node.outputs is {url: "http://localhost:<port>",
\* port: props.port, status: "running", pid: the pid of that process}.
C13_RegisteredWithOutputs ==
    [][(pollAttempt /\ PollAnswered)
       => LET n == deploy.node
          IN /\ os[deploy.pid].id = n
             /\ n \in DOMAIN processes'
             /\ processes'[n].pid = deploy.pid
             /\ nodes'[n].outputs =
                  [url |-> <<"http://localhost:", nodes[n].props.port>>,
                   port |-> nodes[n].props.port, status |-> "running",
                   pid |-> deploy.pid]
             /\ plast'.res = "ok"]_vars

\* a worker spawned for web-b was registered after its fourth poll attempt
C13_Witness ==
    /\ plast.op = "materialize" /\ plast.res = "ok" /\ plast.path = "spawn"
    /\ plast.node = "web-b" /\ deploy.node = "web-b" /\ deploy.i = 3
    /\ "web-b" \in DOMAIN processes /\ processes["web-b"].pid = deploy.pid
    /\ nodes["web-b"].outputs # NoOutputs
    /\ nodes["web-b"].outputs.pid = deploy.pid /\ nodes["web-b"].outputs.port = 8081

\* C14: the startup wait lasts at most 10 s; when its timer fires, the readiness
\* line not having come, materialize fails with the startup-timeout error, which
\* reaches the caller (the rest of the batch is not deployed), and the process table
\* has no handle for the node.
C14_StartupTimeout ==
    [][/\ (call = "startupWait" /\ call' = "startupWait") => timer' <= 10000
       /\ startupTimeout
          => /\ timer = 10000
             /\ plast'.op = "materialize" /\ plast'.node = deploy.node
             /\ plast'.res = "StartupTimeout"
             /\ call' = "idle" /\ queue' = <<>>
             /\ deploy.node \notin DOMAIN processes'
             /\ nodes' = nodes]_vars

\* the first node of a batch of two timed out: its worker is still starting, it has
\* no handle, and the second node was not deployed
C14_Witness ==
    /\ plast.res = "StartupTimeout" /\ plast.node = "web-a"
    /\ call = "idle" /\ os[deploy.pid].st = "starting"
    /\ "web-a" \notin DOMAIN processes
    /\ Len(os) = 1 /\ nodes["web-b"].outputs = NoOutputs

\* C15: a worker that exits with a code other than zero and null during the startup
\* wait makes materialize fail with the exit-code error, which is not the timeout
\* error; an exit with code zero or null changes nothing of the wait: materialize
\* neither fails nor succeeds by it.
C15_ExitDuringStartup ==
    [][\A code \in {"0", "1", "null"} :
         workerExit(code)
         => IF code = "1"
            THEN /\ plast'.res = "ExitCode" /\ plast'.res # "StartupTimeout"
                 /\ plast'.node = deploy.node
                 /\ call' = "idle" /\ queue' = <<>>
                 /\ deploy.node \notin DOMAIN processes'
            ELSE /\ call' = "startupWait" /\ timer' = timer
                 /\ plast' = plast /\ queue' = queue]_vars

\* one deployment failed on the exit code of its worker; in the next one the worker
\* has exited with zero or null and the startup wait goes on
C15_Witness ==
    /\ plast.res = "ExitCode"
    /\ call = "startupWait" /\ os[deploy.pid].st = "dead"
    /\ deploy.pid = 2 /\ os[1].st = "dead"

\* C16: waitForServer makes at most 10 attempts and has paused 500 ms after each
\* failed attempt before the next; at the first attempt that gets a response the
\* handle is registered and materialize of the node succeeds; when the 10th attempt
\* fails it throws, without a further pause, and no handle is registered.
C16_PollBudget ==
    [][/\ pollAttempt
          => /\ deploy.i + 1 <= 10
             /\ deploy.slept = 500 * deploy.i
             /\ PollAnswered
                => /\ plast'.res = "ok"
                   /\ deploy.node \in DOMAIN processes'
                   /\ processes'[deploy.node].pid = deploy.pid
             /\ (PollRefused /\ deploy.i + 1 < 10)
                => /\ call' = "pollDelay" /\ timer' = 0
                   /\ plast' = plast /\ processes' = processes
             /\ (PollRefused /\ deploy.i + 1 = 10)
                => /\ plast'.res = "PollFailed" /\ call' = "idle"
                   /\ deploy.node \notin DOMAIN processes'
       /\ (call = "pollDelay" /\ call' # "pollDelay")
          => (timer = 500 /\ call' = "poll" /\ deploy'.i = deploy.i + 1)]_vars

\* all ten attempts were refused: nine pauses, no handle
C16_Witness ==
    /\ plast.res = "PollFailed" /\ call = "idle"
    /\ deploy.i = 9 /\ deploy.slept = 4500
    /\ deploy.node \notin DOMAIN processes
    /\ os[deploy.pid].st = "starting"

\* C17 as stated: every provider operation eventually returns or throws, whatever the
\* worker and its port do: respond, refuse the connection, or accept it and never
\* answer.
C17_EveryCallSettles == (call # "idle") ~> (call = "idle")

----------------------------------------------------------------------------
\* Claims on teardown (SpecTeardown)

\* a teardown step: cleanup(), or the hook on one of its events
Teardown == cleanup \/ \E e \in Events, platform \in Platforms : hook(e, platform)

\* C18 as stated: a teardown, by cleanup() or by the exit/signal hook, sends a
\* termination signal to every process of the process table and leaves the table
\* empty; a teardown that follows a completed one signals no process, raises no
\* error and leaves the table empty.
C18_TeardownSignalsAll ==
    [][Teardown
       => /\ \A p \in LivePids : p \in signalled' /\ os'[p].st = "dead"
          /\ ~tlast'.err
          /\ host' = "running" => processes' = <<>>
          /\ (tlast.op # "none" /\ processes = <<>>) => signalled' = signalled]_vars

\* C19 as stated: however many providers are constructed in the host process, each
\* of the events exit, SIGINT and SIGTERM has exactly one listener.
C19_RegisteredOnce ==
    \A e \in {"exit", "SIGINT", "SIGTERM"} : listeners[e] = 1

\* C20 as stated: when a teardown, by cleanup() or by the hook, meets a tracked
\* process that has already exited, no error reaches the caller, every other tracked
\* process is still sent its termination signal, and the table is cleared.
C20_ExitedProcessTolerated ==
    [][(Teardown /\ \E p \in TablePids : os[p].st = "dead")
       => /\ ~tlast'.err
          /\ \A p \in TablePids : os[p].st # "dead" => p \in tlast'.sent
          /\ host' = "running" => processes' = <<>>]_vars

\* C21 as stated: when the host process receives an interrupt or terminate signal
\* while processes are tracked, every tracked process has been terminated and the
\* process table is empty by the time the host process has exited.
C21_SignalStopsWorkers ==
    [][(\E e \in {"SIGINT", "SIGTERM"}, platform \in Platforms : hook(e, platform))
       /\ processes # <<>>
       => (host' = "exited"
             => /\ \A p \in TablePids : os'[p].st = "dead"
                /\ processes' = <<>>)]_vars

\* the rows of the audit log carry strictly increasing ids and non-decreasing
\* created_at in insertion order
AuditOrdered ==
    \A i, j \in DOMAIN audit_log :
        i < j => /\ audit_log[i].id < audit_log[j].id
                 /\ audit_log[i].created_at <= audit_log[j].created_at

Appended(s) ==
    /\ Len(audit_log') = Len(audit_log) + 1
    /\ SubSeq(audit_log', 1, Len(audit_log)) = audit_log
    /\ audit_log'[Len(audit_log')].stack_name = s
    /\ audit_log'[Len(audit_log')].created_at = now

\* C22 as stated: every appendAuditLog call adds exactly one audit row, no backend
\* operation changes or removes an audit row, and the rows carry strictly
\* increasing ids and non-decreasing createdAt in insertion order.
C22_AsStated ==
    [][/\ \A s \in Stacks, v \in AuditEntries : appendAuditLog(s, v) => Appended(s)
       /\ (~\E s \in Stacks, v \in AuditEntries : appendAuditLog(s, v))
             => audit_log' = audit_log
       /\ AuditOrdered']_vars

\* C22, amended: every appendAuditLog call that returns adds exactly one audit row
\* after the rows there are, a call that throws (its entry has no JSON text) adds
\* none, no other backend operation changes the audit rows, and the rows carry
\* strictly increasing ids and non-decreasing createdAt in insertion order.
C22_AppendOnly ==
    [][/\ \A s \in Stacks, v \in AuditEntries :
             appendAuditLog(s, v)
                => IF last'.res = "ok" THEN Appended(s)
                   ELSE stringify(v) = NoText /\ audit_log' = audit_log
       /\ (~\E s \in Stacks, v \in AuditEntries : appendAuditLog(s, v))
             => audit_log' = audit_log
       /\ AuditOrdered']_vars

\* two rows appended at different times, with a state row and a lock row written
C22_Witness ==
    /\ Len(audit_log) = 2
    /\ audit_log[1].stack_name = audit_log[2].stack_name
    /\ audit_log[1].created_at < audit_log[2].created_at
    /\ last.op = "appendAuditLog" /\ last.res = "ok"
    /\ state # {} /\ locks # {}

Undeserializable(s) == \E r \in StateRows(state, s) : ~parse(r.state_data).ok

\* C23: getState(s) on a stack whose stored text cannot be parsed returns absent,
\* does not throw, and leaves the stored row as it is.
C23_UnparsableIsAbsent ==
    [][\A s \in Stacks :
          (getState(s) /\ Undeserializable(s))
             => /\ last'.res = "ok"
                /\ last'.ret = Undefined
                /\ state' = state]_vars

C23_Witness ==
    /\ last.op = "getState" /\ last.res = "ok" /\ last.ret = Undefined
    /\ Undeserializable(last.stack)
    /\ lastStored[last.stack] # Never

\* C24: a lock row stored with ttl <= 0 counts as expired as soon as any time has
\* passed: acquireLock on its stack by a different holder succeeds and replaces the
\* row.
C24_NonPositiveTtlExpired ==
    [][\A s \in Stacks, h \in Holders, t \in TTLs :
         \A r \in LockRows(locks, s) :
            (acquireLock(s, h, t) /\ r.ttl <= 0 /\ now - r.acquired_at > 0 /\ h # r.holder)
            => /\ last'.res = "ok"
               /\ LockRows(locks', s) = {LockRow(s, h, now, t)}]_vars

\* the row of another holder with ttl <= 0, acquired earlier, has been replaced
C24_Witness ==
    /\ last.op = "acquireLock" /\ last.res = "ok"
    /\ last.prev # Null
    /\ last.prev.ttl <= 0 /\ now - last.prev.acquiredAt > 0
    /\ last.prev.holder # last.holder
    /\ LockRows(locks, last.stack) = {LockRow(last.stack, last.holder, now, last.ttl)}

\* C25: checkLock(s) is read-only: it returns the lock row of s (holder, acquiredAt,
\* ttl), also when that row is expired, returns none when s has no row, and leaves
\* the lock table as it is.
C25_CheckLockReadOnly ==
    [][\A s \in Stacks :
         checkLock(s)
         => /\ locks' = locks
            /\ last'.res = "ok"
            /\ LockRows(locks, s) = {} => last'.ret = Null
            /\ \A r \in LockRows(locks, s) :
                  last'.ret = [holder |-> r.holder, acquiredAt |-> r.acquired_at,
                               ttl |-> r.ttl]]_vars

\* checkLock has returned a row that is expired, and the row is still there
C25_Witness ==
    /\ last.op = "checkLock" /\ last.ret # Null
    /\ now - last.ret.acquiredAt >= last.ret.ttl * MsPerSec
    /\ now - last.ret.acquiredAt > 0
    /\ LockRow(last.stack, last.ret.holder, last.ret.acquiredAt, last.ret.ttl) \in locks

\* a deployment is between its spawn and the end of its readiness wait and poll
InProgress == call \in {"startupWait", "poll", "pollDelay", "pollPending"}

\* C26: within one materialize batch the nodes are processed one at a time in batch
\* order: a spawn is issued for the first node of the batch that is not done, and
\* only when no startup is in progress; the batch moves on from a node only when
\* that node's readiness wait and poll have finished.
C26_OneStartupAtATime ==
    [][/\ Len(os') > Len(os)
          => /\ ~InProgress /\ InProgress'
             /\ queue # <<>> /\ queue' = queue
             /\ os'[Len(os')].id = Head(queue)
             /\ deploy'.node = Head(queue) /\ deploy'.pid = Len(os')
       /\ InProgress
          => /\ queue # <<>> /\ deploy.node = Head(queue)
             /\ \/ queue' = queue /\ InProgress' /\ deploy'.node = deploy.node
                \/ queue' = Tail(queue) /\ ~InProgress' /\ plast'.res = "ok"
                   /\ plast'.node = Head(queue)
                \/ queue' = <<>> /\ call' = "idle" /\ plast'.res # "ok"]_vars

\* the second node of a batch is in its startup wait after the first was deployed
C26_Witness ==
    /\ call = "startupWait"
    /\ queue = <<"web-b">>
    /\ deploy.node = "web-b" /\ deploy.pid = 2
    /\ plast.op = "materialize" /\ plast.node = "web-a" /\ plast.res = "ok"
    /\ plast.path = "spawn"

\* C29: materialize writes a node's content to the place named after props.name
\* only in the step that spawns the node's worker, where the content is in place
\* when the worker is started; on the reuse path it writes nothing, so the content
\* served stays that of the spawn.
C29_WrittenOnlyBeforeSpawn ==
    [][/\ files' # files => Len(os') = Len(os) + 1
       /\ Len(os') = Len(os) + 1
          => LET props == nodes[os'[Len(os')].id].props
             IN files' = [files EXCEPT ![props.name] = props.content]
       /\ (deployBegin /\ Len(os') = Len(os)) => files' = files]_vars

\* a node rendered with new content went down the reuse path: the file is the one
\* written at the spawn
C29_Witness ==
    /\ plast.op = "materialize" /\ plast.res = "ok" /\ plast.path = "reuse"
    /\ nodes[plast.node].props.content = "v2"
    /\ files[nodes[plast.node].props.name] = "v1"
    /\ call = "idle"

Failures == {"SpawnError", "StartupTimeout", "ExitCode", "PollFailed"}

\* C30: when the deployment of a node fails (spawn error, startup timeout, non-zero
\* exit or exhausted poll) the outputs of the node are not written: they are what
\* they were when the deployment began, none if the node had none.
C30_FailureWritesNoOutputs ==
    [][InProgress
       => /\ (~InProgress' /\ plast'.res \in Failures) => nodes' = nodes
          /\ nodes' # nodes => (~InProgress' /\ plast'.res = "ok")]_vars

C30_Witness ==
    /\ call = "idle"
    /\ plast.op = "materialize" /\ plast.res = "PollFailed"
    /\ nodes[plast.node].outputs = NoOutputs
    /\ deploy.node = plast.node /\ os[deploy.pid].st = "dead"

\* C27: preDeploy, refreshState and detectDrift neither spawn nor kill a process
\* and neither add nor remove an entry of the process table: when a node is found
\* stale only its outputs are cleared, and the handle tracked for it stays.
C27_ProbesLeaveProcesses ==
    [][((\E b \in Batches : preDeploy(b))
          \/ (\E n \in NodeIds : refreshState(n))
          \/ (\E n \in NodeIds : detectDrift(n)))
       => /\ os' = os
          /\ processes' = processes
          /\ \A n \in NodeIds :
                nodes'[n] # nodes[n]
                   => nodes'[n] = [nodes[n] EXCEPT !.outputs = NoOutputs]]_vars

\* preDeploy has cleared the outputs of a node whose tracked worker is dead; the
\* handle is still in the table
C27_Witness ==
    /\ plast.op = "preDeploy" /\ plast.res = "ok"
    /\ \E n \in plast.cleared :
          /\ n \in DOMAIN processes
          /\ os[processes[n].pid].st = "dead"
          /\ nodes[n].outputs = NoOutputs

\* C28 as stated: on the reuse path of materialize (a handle is tracked for the node
\* id) the port and url in the node's outputs after the call are the ones the
\* tracked process was spawned on, also when props.port has changed since.
C28_ReuseReportsBoundPort ==
    [][(/\ materializeNode
        /\ Head(queue) \in DOMAIN processes
        /\ ~processes[Head(queue)].killed)
       => LET n == Head(queue)
              bound == os[processes[n].pid].port
          IN /\ os' = os
             /\ nodes'[n].outputs # NoOutputs
             /\ nodes'[n].outputs.port = bound
             /\ nodes'[n].outputs.url = Url(bound)]_vars

\* C31: when materialize fails at a node of its batch the error reaches the caller
\* and the call is over: the nodes before it keep the outputs and the handles they
\* were given, and no node after it is processed, none of them is spawned and none
\* has its outputs changed.
C31_FailureEndsBatch ==
    [][/\ (InProgress /\ ~InProgress' /\ plast'.res \in Failures)
          => /\ call' = "idle" /\ queue' = <<>>
             /\ plast'.op = "materialize" /\ plast'.node = Head(queue)
             /\ plast'.rest = Tail(queue)
             /\ nodes' = nodes
             /\ processes' = processes
             /\ Len(os') = Len(os)
       /\ call = "idle"
          => /\ Len(os') = Len(os)
             /\ processes' = processes
             /\ \A n \in NodeIds : nodes'[n].outputs = nodes[n].outputs]_vars

\* the batch failed at its first node: the node after it was not spawned and has no
\* outputs
C31_Witness ==
    /\ call = "idle"
    /\ plast.op = "materialize" /\ plast.res \in Failures
    /\ plast.node = "web-a" /\ plast.rest = <<"web-b">>
    /\ nodes["web-b"].outputs = NoOutputs
    /\ \A p \in Pids : os[p].id # "web-b"

\* the workers spawned by the provider that are still running
AlivePids == {p \in Pids : os[p].st \in {"starting", "listening", "mute"}}

\* C32 as stated: whenever no provider operation is under way, every worker the
\* provider has spawned and that is still alive has a handle in the process table;
\* a worker whose deployment failed by the startup timeout or by the exhausted poll
\* is not left running without one.
C32_AliveWorkersTracked ==
    call = "idle" => \A p \in AlivePids : p \in TablePids

\* the latest acquireLock calls of c and d on stack s overlapped and both returned
\* successfully
BothReturned(c, d, s) ==
    /\ c # d /\ d \in req[c].met
    /\ InPass(c, s) /\ InPass(d, s)

\* C33 as stated: for any interleaving of the read, purge and insert steps of two
\* acquireLock calls by different holders on the same stack, whether the stack
\* starts with no lock row or with an expired one, at most one of the two calls
\* returns successfully.
C33_AsStated ==
    \A s \in Stacks : \A c, d \in Callers : ~BothReturned(c, d, s)

\* C33 (amended): of two overlapping acquireLock calls by different holders on the
\* same stack at most one returns successfully when the read of either call found
\* no lock row, as it is when the stack starts with none; both can return
\* successfully only when both reads found the expired row.
C33_OneWinsFromNoRow ==
    \A s \in Stacks : \A c, d \in Callers :
        BothReturned(c, d, s) => (existingLock[c] # Null /\ existingLock[d] # Null)

\* two calls overlapped on a stack with no lock row: one has returned, the INSERT
\* of the other was rejected
C33_Witness ==
    \E c, d \in Callers :
        /\ c # d /\ d \in req[c].met
        /\ existingLock[c] = Null /\ existingLock[d] = Null
        /\ InPass(c, last.stack) /\ pc[d] = "idle" /\ req[d].stack = last.stack
        /\ last.op = "acquireLock" /\ last.holder = d /\ last.res = "ConstraintError"

\* the lock row r is in place and not expired
Held(r) == r \in locks /\ now - r.acquired_at < r.ttl * MsPerSec

\* what checkLock returns for the row r
AsRead(r) == [holder |-> r.holder, acquiredAt |-> r.acquired_at, ttl |-> r.ttl]

\* C34 as stated: a non-expired lock acquired by holder H on stack s stays in place,
\* with H as holder, until H itself calls releaseLock(s); no call made by a
\* different caller removes or replaces it.
C34_AsStated ==
    [][\A r \in locks :
          (Held(r) /\ r \notin locks')
             => \E c \in Callers :
                   /\ c = r.holder
                   /\ \/ passRelease(c) /\ req[c].stack = r.stack_name
                      \/ idleRelease(c, r.stack_name)]_vars

\* C34 (amended): a non-expired lock acquired by holder H on stack s stays in
\* place, with H as holder, until a caller, H or another, calls releaseLock(s), or
\* an acquireLock call that read an earlier row of s before H acquired purges it;
\* an acquireLock call that has read the lock fails with Lock Conflict and leaves it.
C34_HeldUntilReleased ==
    [][\A r \in locks :
          Held(r)
             => /\ r \notin locks'
                   => \E c \in Callers :
                         \/ passRelease(c) /\ req[c].stack = r.stack_name
                         \/ idleRelease(c, r.stack_name)
                         \/ /\ acquireResume(c) /\ req[c].stack = r.stack_name
                            /\ existingLock[c] # Null /\ existingLock[c] # AsRead(r)
                /\ \A c \in Callers :
                      (acquireResume(c) /\ req[c].stack = r.stack_name
                         /\ existingLock[c] = AsRead(r))
                      => (locks' = locks /\ last'.res = "LockConflict")]_vars

\* half a second after H acquired, the acquireLock of another caller has failed and
\* the lock of H is in place
C34_Witness ==
    \E r \in locks :
        /\ Held(r) /\ now - r.acquired_at = TickMs
        /\ InPass(r.holder, r.stack_name)
        /\ last.op = "acquireLock" /\ last.res = "LockConflict"
        /\ last.stack = r.stack_name /\ last.holder # r.holder
        /\ existingLock[last.holder] = AsRead(r)

\* C35: an acquireLock that fails with Lock Conflict leaves the backend as it was:
\* the lock row of the stack keeps its holder, acquiredAt and ttl, and no state row
\* and no audit row is touched.
C35_ConflictChangesNothing ==
    [][\A s \in Stacks, h \in Holders, t \in TTLs :
          (acquireLock(s, h, t) /\ last'.res = "LockConflict")
             => /\ locks' = locks
                /\ state' = state
                /\ audit_log' = audit_log
                /\ \E r \in LockRows(locks', s) : r.holder = last'.errHolder]_vars

\* a refused acquireLock on a backend that has a state row and an audit row
C35_Witness ==
    /\ last.op = "acquireLock" /\ last.res = "LockConflict"
    /\ \E r \in LockRows(locks, last.stack) :
          r.holder = last.errHolder /\ now - r.acquired_at < r.ttl * MsPerSec
    /\ state # {}
    /\ audit_log # <<>>

\* C36: the startup wait of a spawn settles once: the first of the readiness line,
\* the 10 s timer, a spawn error and an exit with a non-zero code decides whether
\* materialize goes on to the poll or fails, and an event of the worker that
\* arrives after that changes neither the outcome nor the process table.
C36_StartupWaitSettlesOnce ==
    [][/\ call = "startupWait"
          => \/ call' = "startupWait" /\ plast' = plast /\ processes' = processes
             \/ stdoutReady /\ call' = "poll" /\ plast' = plast
                /\ processes' = processes
             \/ /\ call' = "idle" /\ processes' = processes
                /\ \/ startupTimeout /\ plast'.res = "StartupTimeout"
                   \/ spawnError /\ plast'.res = "SpawnError"
                   \/ \E code \in ExitCodes :
                         workerExit(code) /\ exitRejects(code) /\ plast'.res = "ExitCode"
       /\ (\E e \in {"stdout", "error", "exit"} : lateEvent(e))
          => /\ call' = call /\ queue' = queue /\ plast' = plast
             /\ processes' = processes /\ nodes' = nodes]_vars

\* the wait was ended by its timer, the readiness line came after it: the call has
\* failed and the worker has no handle
C36_Witness ==
    /\ call = "idle"
    /\ plast.op = "materialize" /\ plast.res = "StartupTimeout"
    /\ deploy.node = plast.node /\ deploy.late = "stdout"
    /\ deploy.node \notin DOMAIN processes
    /\ nodes[deploy.node].outputs = NoOutputs

====
